---- MODULE Spec2Model ----
(***************************************************************************)
(* Model of merge_videos.py: discovery of numbered chapter folders, the    *)
(* numeric-prefix ordering of their segments, the concat manifest, the     *)
(* invocation of the external tool and the aggregation done by main.       *)
(* Names are sequences of one-character strings so that the regular        *)
(* expressions, int(), the glob and the manifest quoting are computed.     *)
(***************************************************************************)
EXTENDS Integers, Sequences, FiniteSets, TLC

\* ---------------------------------------------------------------- bounds
MaxRootEntries == 2
MaxFiles == 2
MaxNameLen == 3
MaxCalls == 2

\* ------------------------------------------------------------- constants
LECTURES_DIR == <<"C","S","E","6","2","5","0","_","L","e","c","t","u","r","e","s">>
\* the working directory Path.absolute() prepends
Cwd == <<"/","w">>
Ext == <<".","m","p","4">>
NoFile == <<"<absent>">>

Digits == {"0","1","2","3","4","5","6","7","8","9"}

\* ------------------------------------------------------- text operations
Range(f) == { f[i] : i \in DOMAIN f }

DigitVal(c) ==
  CASE c = "0" -> 0 [] c = "1" -> 1 [] c = "2" -> 2 [] c = "3" -> 3
    [] c = "4" -> 4 [] c = "5" -> 5 [] c = "6" -> 6 [] c = "7" -> 7
    [] c = "8" -> 8 [] c = "9" -> 9

\* the group (\d+) of re.match(r'^(\d+)', s): the greedy leading digit run
RECURSIVE LeadingDigits(_)
LeadingDigits(s) ==
  IF s = <<>> \/ Head(s) \notin Digits THEN <<>>
  ELSE <<Head(s)>> \o LeadingDigits(Tail(s))

\* int() of a digit string, digit by digit from the left
RECURSIVE IntOfFrom(_, _)
IntOfFrom(acc, ds) ==
  IF ds = <<>> THEN acc ELSE IntOfFrom(acc * 10 + DigitVal(Head(ds)), Tail(ds))

IntOf(ds) == IntOfFrom(0, ds)

\* float('inf') wrapped in a list; an int key is [inf |-> FALSE, val |-> n]
InfKey == [inf |-> TRUE, val |-> 0]

IntKey(n) == [inf |-> FALSE, val |-> n]

\* Python's < on the one-element key lists: every int is below float('inf')
KeyLT(a, b) ==
  IF a.inf THEN FALSE
  ELSE IF b.inf THEN TRUE
  ELSE a.val < b.val

\* natural_sort_key with the pattern ^(\d): only the first digit is read
natural_sort_key_FirstDigit(filename) ==
  IF filename # <<>> /\ Head(filename) \in Digits
  THEN IntKey(DigitVal(Head(filename)))
  ELSE InfKey

natural_sort_key(filename) ==
  LET m == LeadingDigits(filename)
  IN  IF m # <<>> THEN IntKey(IntOf(m)) ELSE InfKey

\* re.match(r'^\d+_', name)
MatchesChapter(name) ==
  LET m == LeadingDigits(name)
  IN  /\ m # <<>>
      /\ Len(name) > Len(m)
      /\ name[Len(m) + 1] = "_"

\* the chapter sort keyed on the first digit only
ChapterKey_FirstDigit(name) == IntKey(DigitVal(Head(name)))

\* key of the chapter sort: int(re.match(r'^(\d+)', x.name).group(1))
ChapterKey(name) == IntKey(IntOf(LeadingDigits(name)))

\* list.sort(key=...): stable; works on <<key, item>> pairs
RECURSIVE InsertStable(_, _)
InsertStable(p, sorted) ==
  IF sorted = <<>> THEN <<p>>
  ELSE IF KeyLT(p[1], Head(sorted)[1]) THEN <<p>> \o sorted
  ELSE <<Head(sorted)>> \o InsertStable(p, Tail(sorted))

RECURSIVE SortPairs(_)
SortPairs(ps) ==
  IF ps = <<>> THEN <<>>
  ELSE InsertStable(ps[Len(ps)], SortPairs(SubSeq(ps, 1, Len(ps) - 1)))

Items(ps) == [i \in 1..Len(ps) |-> ps[i][2]]

RECURSIVE SelectSeqBy(_, _)
SelectSeqBy(s, keep) ==
  IF s = <<>> THEN <<>>
  ELSE (IF Head(s) \in keep THEN <<Head(s)>> ELSE <<>>) \o SelectSeqBy(Tail(s), keep)

\* fnmatch of "*.mp4" against an entry name
GlobMp4(name) ==
  /\ Len(name) >= Len(Ext)
  /\ SubSeq(name, Len(name) - Len(Ext) + 1, Len(name)) = Ext

\* str.replace("'", "'\\''")
RECURSIVE Escape(_)
Escape(s) ==
  IF s = <<>> THEN <<>>
  ELSE (IF Head(s) = "'" THEN <<"'", "\\", "'", "'">> ELSE <<Head(s)>>) \o Escape(Tail(s))

\* str(path.absolute()) of the Path lectures_dir / chapter / file
AbsPath(chapter, file) ==
  Cwd \o <<"/">> \o LECTURES_DIR \o <<"/">> \o chapter \o <<"/">> \o file

\* one f.write(f"file '{safe_path}'\n")
ConcatLine(chapter, file) ==
  <<"f","i","l","e"," ","'">> \o Escape(AbsPath(chapter, file)) \o <<"'", "\n">>

\* ------------------------------------------------- the file system inputs
\* children of the lectures directory the runs are explored over
EntryPool ==
  { [name |-> <<"0","_","I">>,     is_dir |-> TRUE],
    [name |-> <<"1","0","_","M">>, is_dir |-> TRUE],
    [name |-> <<"2","_","E">>,     is_dir |-> TRUE],
    [name |-> <<"7","_","f">>,     is_dir |-> FALSE],
    [name |-> <<"x","_","1">>,     is_dir |-> TRUE],
    [name |-> <<"3","d">>,         is_dir |-> TRUE] }

\* entries of a chapter folder the runs are explored over
FilePool ==
  { <<"1","0","a">> \o Ext,
    <<"2","b">> \o Ext,
    <<"0","2","'">> \o Ext,
    <<"I">> \o Ext,
    <<"3",".","t","x","t">> }

\* enumeration orders: sequences without repetition of at most n elements
SeqsNoRepeat(S, n) ==
  { s \in UNION { [1..k -> S] : k \in 0..n } :
      \A i, j \in DOMAIN s : i # j => s[i] # s[j] }

RootListings == SeqsNoRepeat(EntryPool, MaxRootEntries)

FolderListings == SeqsNoRepeat(FilePool, MaxFiles)

\* a manifest left behind by an earlier run
StaleManifest == ConcatLine(<<"9","_","Z">>, <<"1">> \o Ext)

\* -------------------------------------------------------------- functions
\* get_video_files without the sort
get_video_files_Unsorted(chapter, listing) ==
  LET names == SelectSeqBy(listing, { n \in FilePool : GlobMp4(n) })
  IN  [i \in 1..Len(names) |-> [dir |-> chapter, name |-> names[i]]]

\* get_video_files: glob("*.mp4") then sort by natural_sort_key of the name
get_video_files(chapter, listing) ==
  LET names == SelectSeqBy(listing, { n \in FilePool : GlobMp4(n) })
      mp4_files == [i \in 1..Len(names) |-> [dir |-> chapter, name |-> names[i]]]
      pairs == [i \in 1..Len(mp4_files) |-> <<natural_sort_key(mp4_files[i].name), mp4_files[i]>>]
  IN  Items(SortPairs(pairs))

\* the chapter_folders of get_chapter_folders for an existing directory
SortedChapters(entries) ==
  LET kept == SelectSeqBy(entries, { e \in EntryPool : e.is_dir /\ MatchesChapter(e.name) })
      pairs == [i \in 1..Len(kept) |-> <<ChapterKey(kept[i].name), kept[i].name>>]
  IN  Items(SortPairs(pairs))

RECURSIVE WriteLines(_)
WriteLines(video_files) ==
  IF video_files = <<>> THEN <<>>
  ELSE ConcatLine(Head(video_files).dir, Head(video_files).name) \o WriteLines(Tail(video_files))

\* create_concat_file opening the manifest in append mode
create_concat_file_Append(video_files, old) ==
  (IF old = NoFile THEN <<>> ELSE old) \o WriteLines(video_files)

\* create_concat_file: open(concat_file, 'w') truncates, then one write per video
create_concat_file(video_files, old) ==
  LET opened == <<>>
  IN  opened \o WriteLines(video_files)

\* merge_videos without the empty-folder test
NoVideoFiles_Never(video_files) == FALSE

\* the "if not video_files" test of merge_videos
NoVideoFiles(video_files) == video_files = <<>>

\* merge_videos trusting the exit status without looking for the output
ReturnAfterCleanExit_Always(output_exists) == TRUE

\* value returned by the try block after a clean exit: output_file.exists()
ReturnAfterCleanExit(output_exists) == output_exists

\* main's loop body forgetting to count a failed chapter
CountResult_DropFailed(ok, s, f) ==
  IF ok THEN [successful |-> s + 1, failed |-> f]
  ELSE [successful |-> s, failed |-> f]

\* the if/else of main's loop body on the value merge_videos returned
CountResult(ok, s, f) ==
  IF ok THEN [successful |-> s + 1, failed |-> f]
  ELSE [successful |-> s, failed |-> f + 1]

\* ------------------------------------------------------------------ state
VARIABLES
  pc,              \* position of main
  exitCode,        \* process exit status, -1 while running
  ffmpegState,     \* what running "ffmpeg -version" does
  rootKind,        \* what LECTURES_DIR is on disk
  listed,          \* iterdir() of LECTURES_DIR, in enumeration order
  outDir,          \* what OUTPUT_DIR is on disk
  outputs,         \* chapters whose <chapter>_merged.mp4 exists
  manifest,        \* content of TEMP_CONCAT_FILE, or NoFile
  chapter_folders, \* names returned by get_chapter_folders
  idx,             \* position of the for loop of main
  successful,
  failed,
  globbed,         \* entries of the chapter folder being merged
  video_files,     \* video_files of the running merge_videos call
  toolResult,      \* outcome of subprocess.run(cmd) of the running call
  attempted,       \* chapters merge_videos was called on, in call order
  results,         \* values merge_videos returned so far
  last,            \* how the latest merge_videos call went
  keyName,         \* argument of natural_sort_key
  keyResults       \* keys returned by successive calls on keyName

vars == <<pc, exitCode, ffmpegState, rootKind, listed, outDir, outputs, manifest,
          chapter_folders, idx, successful, failed, globbed, video_files,
          toolResult, attempted, results, last, keyName, keyResults>>

NoCall == [chapter |-> <<>>, nsegs |-> 0, existed |-> FALSE, wrote |-> FALSE, invoked |-> FALSE, exit |-> "none",
           present |-> FALSE, ret |-> "none"]

Init ==
  /\ pc = "check"
  /\ exitCode = -1
  /\ ffmpegState \in {"ok", "nonzero", "notfound", "denied"}
  /\ rootKind \in {"missing", "dir", "file"}
  /\ listed \in (IF rootKind = "dir" THEN RootListings ELSE {<<>>})
  /\ outDir \in {"absent", "dir", "file"}
  /\ outputs = {}
  /\ manifest \in {NoFile, StaleManifest}
  /\ chapter_folders = <<>>
  /\ idx = 1
  /\ successful = 0
  /\ failed = 0
  /\ globbed = <<>>
  /\ video_files = <<>>
  /\ toolResult = "none"
  /\ attempted = <<>>
  /\ results = <<>>
  /\ last = NoCall
  /\ keyName = <<>>
  /\ keyResults = <<>>

\* ---------------------------------------------------------------- actions
\* main: if not check_ffmpeg(): sys.exit(1)
CheckFFmpeg ==
  /\ pc = "check"
  /\ \/ /\ ffmpegState = "ok"
        /\ pc' = "scan"
        /\ UNCHANGED exitCode
     \/ /\ ffmpegState \in {"nonzero", "notfound"}
        /\ pc' = "exit1"
        /\ exitCode' = 1
     \/ /\ ffmpegState = "denied"
        /\ pc' = "crashed"
        /\ exitCode' = 1
  /\ UNCHANGED <<ffmpegState, rootKind, listed, outDir, outputs, manifest,
                 chapter_folders, idx, successful, failed, globbed, video_files,
                 toolResult, attempted, results, last, keyName, keyResults>>

\* main: chapter_folders = get_chapter_folders(LECTURES_DIR); exit 1 when empty
GetChapterFolders ==
  /\ pc = "scan"
  /\ \/ /\ rootKind = "missing"
        /\ chapter_folders' = <<>>
        /\ pc' = "exit1"
        /\ exitCode' = 1
     \/ /\ rootKind = "file"
        /\ chapter_folders' = <<>>
        /\ pc' = "crashed"
        /\ exitCode' = 1
     \/ /\ rootKind = "dir"
        /\ chapter_folders' = SortedChapters(listed)
        /\ IF chapter_folders' = <<>>
           THEN pc' = "exit1" /\ exitCode' = 1
           ELSE pc' = "loop" /\ UNCHANGED exitCode
  /\ UNCHANGED <<ffmpegState, rootKind, listed, outDir, outputs, manifest,
                 idx, successful, failed, globbed, video_files,
                 toolResult, attempted, results, last, keyName, keyResults>>

\* merge_videos up to the start of the external tool
MergeBegin ==
  /\ pc = "loop"
  /\ idx <= Len(chapter_folders)
  /\ \E listing \in FolderListings :
       LET chapter == chapter_folders[idx]
           vf == get_video_files(chapter, listing)
           call == [NoCall EXCEPT !.chapter = chapter,
                                  !.nsegs = Cardinality({ n \in Range(listing) : GlobMp4(n) })]
       IN  /\ attempted' = Append(attempted, chapter)
           /\ IF NoVideoFiles(vf)
              THEN LET c == CountResult(FALSE, successful, failed)
                   IN  /\ globbed' = <<>>
                       /\ video_files' = <<>>
                       /\ successful' = c.successful
                       /\ failed' = c.failed
                       /\ results' = Append(results, FALSE)
                       /\ idx' = idx + 1
                       /\ last' = [call EXCEPT !.ret = "False"]
                       /\ UNCHANGED <<pc, exitCode, outDir, manifest>>
              ELSE IF outDir = "file"
              THEN /\ globbed' = listing
                   /\ video_files' = vf
                   /\ pc' = "crashed"
                   /\ exitCode' = 1
                   /\ last' = [call EXCEPT !.ret = "raised"]
                   /\ UNCHANGED <<outDir, manifest, idx, successful, failed, results>>
              ELSE /\ globbed' = listing
                   /\ video_files' = vf
                   /\ outDir' = "dir"
                   /\ manifest' = create_concat_file(vf, manifest)
                   /\ pc' = "ffmpeg"
                   /\ last' = [call EXCEPT !.wrote = TRUE, !.existed = (manifest # NoFile)]
                   /\ UNCHANGED <<exitCode, idx, successful, failed, results>>
  /\ UNCHANGED <<ffmpegState, rootKind, listed, outputs, chapter_folders,
                 toolResult, keyName, keyResults>>

\* subprocess.run(cmd, check=True): the external tool runs, or fails to start
RunFFmpeg ==
  /\ pc = "ffmpeg"
  /\ \E res \in {"exit0", "nonzero", "oserror"}, present \in BOOLEAN :
       LET chapter == chapter_folders[idx]
       IN  /\ res = "oserror" => present = (chapter \in outputs)
           /\ toolResult' = res
           /\ outputs' = IF present THEN outputs \cup {chapter} ELSE outputs \ {chapter}
           /\ last' = [last EXCEPT !.invoked = TRUE, !.exit = res, !.present = present]
  /\ pc' = "finish"
  /\ UNCHANGED <<exitCode, ffmpegState, rootKind, listed, outDir, manifest,
                 chapter_folders, idx, successful, failed, globbed, video_files,
                 attempted, results, keyName, keyResults>>

\* the rest of the try statement of merge_videos and main's counting
MergeFinish ==
  /\ pc = "finish"
  /\ LET chapter == chapter_folders[idx]
     IN  IF toolResult = "oserror"
         THEN /\ pc' = "crashed"
              /\ exitCode' = 1
              /\ last' = [last EXCEPT !.ret = "raised"]
              /\ UNCHANGED <<manifest, idx, successful, failed, results, globbed, video_files>>
         ELSE LET ok == IF toolResult = "exit0"
                        THEN ReturnAfterCleanExit(chapter \in outputs)
                        ELSE FALSE
                  c == CountResult(ok, successful, failed)
              IN  /\ manifest' = NoFile
                  /\ successful' = c.successful
                  /\ failed' = c.failed
                  /\ results' = Append(results, ok)
                  /\ idx' = idx + 1
                  /\ pc' = "loop"
                  /\ globbed' = <<>>
                  /\ video_files' = <<>>
                  /\ last' = [last EXCEPT !.ret = IF ok THEN "True" ELSE "False"]
                  /\ UNCHANGED exitCode
  /\ toolResult' = "none"
  /\ UNCHANGED <<ffmpegState, rootKind, listed, outDir, outputs,
                 chapter_folders, attempted, keyName, keyResults>>

\* main: the summary after the loop
Summary ==
  /\ pc = "loop"
  /\ idx > Len(chapter_folders)
  /\ pc' = "summary"
  /\ UNCHANGED <<exitCode, ffmpegState, rootKind, listed, outDir, outputs, manifest,
                 chapter_folders, idx, successful, failed, globbed, video_files,
                 toolResult, attempted, results, last, keyName, keyResults>>

\* main returns and the interpreter exits
ProcessExit ==
  /\ pc = "summary"
  /\ pc' = "done"
  /\ exitCode' = 0
  /\ UNCHANGED <<ffmpegState, rootKind, listed, outDir, outputs, manifest,
                 chapter_folders, idx, successful, failed, globbed, video_files,
                 toolResult, attempted, results, last, keyName, keyResults>>

Next ==
  \/ CheckFFmpeg
  \/ GetChapterFolders
  \/ MergeBegin
  \/ RunFFmpeg
  \/ MergeFinish
  \/ Summary
  \/ ProcessExit

Spec == Init /\ [][Next]_vars

\* ------------------------------------------- natural_sort_key on its own
KeyAlphabet == {"0", "1", "9", "a", "_"}

AllNames == UNION { [1..k -> KeyAlphabet] : k \in 0..MaxNameLen }

KeyInit ==
  /\ pc = "check"
  /\ exitCode = -1
  /\ ffmpegState = "ok"
  /\ rootKind = "missing"
  /\ listed = <<>>
  /\ outDir = "absent"
  /\ outputs = {}
  /\ manifest = NoFile
  /\ chapter_folders = <<>>
  /\ idx = 1
  /\ successful = 0
  /\ failed = 0
  /\ globbed = <<>>
  /\ video_files = <<>>
  /\ toolResult = "none"
  /\ attempted = <<>>
  /\ results = <<>>
  /\ last = NoCall
  /\ keyName \in AllNames
  /\ keyResults = <<>>

\* one more call natural_sort_key(keyName)
KeyCall ==
  /\ Len(keyResults) < MaxCalls
  /\ keyResults' = Append(keyResults, natural_sort_key(keyName))
  /\ UNCHANGED <<keyName, pc, exitCode, ffmpegState, rootKind, listed, outDir, outputs,
                 manifest, chapter_folders, idx, successful, failed, globbed,
                 video_files, toolResult, attempted, results, last>>

KeyNext == KeyCall

KeySpec == KeyInit /\ [][KeyNext]_vars

\* ---------------------------------------------- vocabulary of the claims
\* the first k characters of name are its whole leading run of digits
IsDigitRun(name, k) ==
  /\ k \in 0..Len(name)
  /\ \A i \in 1..k : name[i] \in Digits
  /\ k < Len(name) => name[k + 1] \notin Digits

\* positional value of the decimal numeral name[1..k]
RECURSIVE DecimalValue(_, _)
DecimalValue(name, k) ==
  IF k = 0 THEN 0
  ELSE DigitVal(name[k]) + 10 * DecimalValue(name, k - 1)

HasLeadingInt(name) == name # <<>> /\ name[1] \in Digits

PrefixValue(name) == DecimalValue(name, CHOOSE k \in 0..Len(name) : IsDigitRun(name, k))

\* one or more digits followed by an underscore
ChapterShape(name) ==
  \E k \in 1..Len(name) : IsDigitRun(name, k) /\ k < Len(name) /\ name[k + 1] = "_"

\* the newline-terminated lines of a file's content, from position i on
RECURSIVE LinesFrom(_, _)
LinesFrom(content, i) ==
  IF i > Len(content) THEN <<>>
  ELSE IF \E j \in i..Len(content) : content[j] = "\n"
  THEN LET j == CHOOSE x \in i..Len(content) :
                  /\ content[x] = "\n"
                  /\ \A y \in i..(x - 1) : content[y] # "\n"
       IN  <<SubSeq(content, i, j - 1)>> \o LinesFrom(content, j + 1)
  ELSE <<SubSeq(content, i, Len(content))>>

Lines(content) == LinesFrom(content, 1)

\* the manifest line of one segment, without its terminator
QuotedLine(chapter, file) ==
  LET l == ConcatLine(chapter, file) IN SubSeq(l, 1, Len(l) - 1)

Segments(listing) == { n \in Range(listing) : GlobMp4(n) }

PositionIn(listing, n) == CHOOSE i \in DOMAIN listing : listing[i] = n

ToolInvoked == pc \in {"ffmpeg", "finish"}

CallEnded == last.ret # "none"

\* get_chapter_folders has been called and has ended
Scanned == ffmpegState = "ok" /\ pc \notin {"check", "scan"}

\* ------------------------------------------------------------------ claims
\* C1: every merge_videos call that wrote the manifest has deleted it when
\* the call ends, whether the tool exited cleanly, exited non-zero, failed
\* to start, or any other error was raised after the write.
C1_ManifestDeletedAtEnd ==
  (CallEnded /\ last.wrote) => manifest = NoFile

\* C2: merge_videos returns True only after a clean exit of the tool with
\* the output file present; a clean exit with the output absent and a
\* non-zero exit both return False.
C2_TrueOnlyIfCleanAndPresent ==
  /\ last.ret = "True" => (last.exit = "exit0" /\ last.present /\ last.chapter \in outputs)
  /\ (CallEnded /\ last.exit = "exit0" /\ ~last.present) => last.ret = "False"
  /\ (CallEnded /\ last.exit = "nonzero") => last.ret = "False"

C2_Witness ==
  /\ pc = "loop"
  /\ last.exit = "exit0"
  /\ ~last.present
  /\ last.ret = "False"

\* C3: a chapter that fails (no segments, non-zero exit, output missing)
\* does not stop the run; chapters are attempted once each in discovery
\* order, every returned value is counted in exactly one counter, and at
\* the summary successful + failed is the number of discovered chapters.
C3_EveryChapterCountedOnce ==
  /\ attempted = SubSeq(chapter_folders, 1, Len(attempted))
  /\ successful = Cardinality({ i \in DOMAIN results : results[i] })
  /\ failed = Cardinality({ i \in DOMAIN results : ~results[i] })
  /\ last.ret = "False" => pc \in {"loop", "summary", "done"}
  /\ pc \in {"summary", "done"} =>
       /\ attempted = chapter_folders
       /\ Len(results) = Len(chapter_folders)
       /\ successful + failed = Len(chapter_folders)

C3_Witness ==
  /\ pc = "summary"
  /\ Len(chapter_folders) = 2
  /\ results = <<FALSE, TRUE>>

\* C4: the exit code is 1 when the tool is unavailable, the root is missing
\* or it holds no chapter folder, and then nothing was merged; it is 0 in
\* every other run that ends.
C4_ExitCode ==
  LET aborts == \/ ffmpegState # "ok"
                \/ rootKind # "dir"
                \/ ~\E e \in Range(listed) : e.is_dir /\ ChapterShape(e.name)
  IN  exitCode # -1 =>
        /\ exitCode = 1 <=> aborts
        /\ aborts => (attempted = <<>> /\ outputs = {})

\* C5: no merge_videos call ends by raising into the loop of main.
C5_NoExceptionEscapes ==
  last.ret # "raised"

\* C6: a chapter folder without any *.mp4 entry makes merge_videos return
\* False without writing a manifest or invoking the external tool.
C6_EmptyChapterFailsWithoutTool ==
  (last.chapter # <<>> /\ last.nsegs = 0) =>
     /\ last.ret = "False"
     /\ ~last.invoked
     /\ ~last.wrote
     /\ ~ToolInvoked

C6_Witness ==
  /\ last.chapter # <<>>
  /\ last.nsegs = 0
  /\ last.ret = "False"
  /\ failed = 2

\* C7: when the tool is invoked the manifest has one line per segment of
\* the chapter, ascending by leading integer, equal prefixes in enumeration
\* order, names without a leading integer after all that have one.
C7_ManifestOrdered ==
  ToolInvoked =>
    LET chapter == chapter_folders[idx]
        lines == Lines(manifest)
        segs == Segments(globbed)
        SegOf(i) == CHOOSE n \in segs : lines[i] = QuotedLine(chapter, n)
    IN  /\ Len(lines) = Cardinality(segs)
        /\ \A i \in DOMAIN lines : \E n \in segs : lines[i] = QuotedLine(chapter, n)
        /\ \A n \in segs : \E i \in DOMAIN lines : lines[i] = QuotedLine(chapter, n)
        /\ \A i, j \in DOMAIN lines : i < j =>
             LET a == SegOf(i)
                 b == SegOf(j)
             IN  /\ HasLeadingInt(b) => HasLeadingInt(a)
                 /\ (HasLeadingInt(a) /\ HasLeadingInt(b)) => PrefixValue(a) <= PrefixValue(b)
                 /\ (HasLeadingInt(a) = HasLeadingInt(b)
                       /\ (HasLeadingInt(a) => PrefixValue(a) = PrefixValue(b)))
                      => PositionIn(globbed, a) < PositionIn(globbed, b)

C7_Witness ==
  /\ pc = "ffmpeg"
  /\ globbed = << <<"1","0","a">> \o Ext, <<"2","b">> \o Ext >>
  /\ Lines(manifest) = << QuotedLine(chapter_folders[idx], <<"2","b">> \o Ext),
                          QuotedLine(chapter_folders[idx], <<"1","0","a">> \o Ext) >>

\* C8: get_chapter_folders returns exactly the child directories named
\* digits-underscore-..., ascending by the integer value of the digits, and
\* the empty sequence without an error when the root does not exist.
C8_ChapterFolders ==
  Scanned =>
    /\ rootKind = "missing" => (chapter_folders = <<>> /\ pc = "exit1")
    /\ rootKind = "dir" =>
         /\ Range(chapter_folders) =
              { e.name : e \in { x \in Range(listed) : x.is_dir /\ ChapterShape(x.name) } }
         /\ \A i, j \in DOMAIN chapter_folders :
              i < j => /\ chapter_folders[i] # chapter_folders[j]
                       /\ PrefixValue(chapter_folders[i]) <= PrefixValue(chapter_folders[j])

C8_Witness ==
  /\ pc = "loop"
  /\ [i \in DOMAIN listed |-> listed[i].name] =
       << <<"1","0","_","M">>, <<"2","_","E">> >>
  /\ chapter_folders = << <<"2","_","E">>, <<"1","0","_","M">> >>

\* C9: natural_sort_key returns N for a name whose leading digit run has
\* value N, a sentinel above every integer key for a name that starts with
\* no digit, and the same key on every call with the same name.
C9_NaturalSortKey ==
  \A r \in DOMAIN keyResults :
    /\ HasLeadingInt(keyName) =>
         keyResults[r] = IntKey(PrefixValue(keyName))
    /\ ~HasLeadingInt(keyName) =>
         \A n \in AllNames : HasLeadingInt(n) =>
           /\ KeyLT(natural_sort_key(n), keyResults[r])
           /\ ~KeyLT(keyResults[r], natural_sort_key(n))
    /\ keyResults[r] = keyResults[1]

C9_Witness ==
  /\ keyName = <<"1", "9", "a">>
  /\ keyResults = <<IntKey(19), IntKey(19)>>

\* C10: at each invocation of the tool every manifest line names a segment
\* of the chapter being merged, also when a manifest file was already there
\* when create_concat_file opened it.
C10_ManifestOfCurrentChapterOnly ==
  ToolInvoked =>
    \A l \in Range(Lines(manifest)) :
      \E n \in Segments(globbed) : l = QuotedLine(chapter_folders[idx], n)

C10_Witness ==
  /\ pc = "ffmpeg"
  /\ last.existed
  /\ manifest # NoFile
  /\ Len(Lines(manifest)) = 2
====
